---- MODULE Spec2Model ----
(***************************************************************************)
(* Model of download.py, the PAJ fetcher: prepare_resources lists the      *)
(* spreadsheet links of the statistics index page as resource descriptors, *)
(* main collects the whole listing and hands it to the toolbox's           *)
(* process_resources, which calls back PAJResource.create_context,         *)
(* process_resource and PAJResource.delete.                                *)
(*                                                                         *)
(* Python str values are TLA+ strings, handled character by character      *)
(* (Len, SubSeq, \o).  An optional value (None or a value) is a sequence   *)
(* of length at most one.                                                  *)
(***************************************************************************)
EXTENDS Naturals, Sequences, FiniteSets, TLC

VARIABLES
    page,       \* the parsed index page fetch_xml returned: its <ul> elements
    pc,         \* where main is: "listing", "crashed", "processing"
    idx,        \* index of the next <li> the for loop of prepare_resources visits
    resources,  \* the list main's comprehension has collected so far
    exc,        \* the exception that ended the run ("" while there is none)
    dirs,       \* the directories that exist under the target directory
    files,      \* the files under them: a function from <<dir, name>> to bytes
    lastOp      \* the toolbox's last call into this program, and how it ended

vars == <<page, pc, idx, resources, exc, dirs, files, lastOp>>

None == <<>>
Some(v) == <<v>>

----------------------------------------------------------------------------
(* Bounds of the model.                                                    *)

\* the longest list of <li> elements on an index page of SpecLister
MaxItems == 2
\* the longest response body, in bytes
MaxBody == 2

----------------------------------------------------------------------------
(* Python's str operations, as download.py uses them.                      *)

Min(S) == CHOOSE x \in S : \A y \in S : x <= y

\* s.find(p) + 1: the 1-based index of the first occurrence of p in s, else 0
StrFind(s, p) ==
    LET hits == {i \in 1..(Len(s) + 1 - Len(p)) : SubSeq(s, i, i + Len(p) - 1) = p}
    IN  IF Len(p) > Len(s) \/ hits = {} THEN 0 ELSE Min(hits)

\* p in s
StrContains(s, p) == StrFind(s, p) # 0

\* s.replace(old, new): every non-overlapping occurrence, left to right
RECURSIVE StrReplace(_, _, _)
StrReplace(s, old, new) ==
    LET i == StrFind(s, old)
    IN  IF i = 0 THEN s
        ELSE SubSeq(s, 1, i - 1) \o new
             \o StrReplace(SubSeq(s, i + Len(old), Len(s)), old, new)

\* s.split(sep): the list of the pieces between the occurrences of sep
RECURSIVE StrSplit(_, _)
StrSplit(s, sep) ==
    LET i == StrFind(s, sep)
    IN  IF i = 0 THEN <<s>>
        ELSE <<SubSeq(s, 1, i - 1)>>
             \o StrSplit(SubSeq(s, i + Len(sep), Len(s)), sep)

\* re.search(r"\((.*?) .*\)", s): None when nothing matches, else group(1).
\* The match starts at the first "(" (a later one matches only if the first
\* does); the lazy group ends before the first " " after it; the greedy
\* tail needs some ")" after that space.  Texts hold no line break.
ReSearchDate(s) ==
    LET open  == StrFind(s, "(")
        rest  == SubSeq(s, open + 1, Len(s))
        sp    == StrFind(rest, " ")
        after == SubSeq(rest, sp + 1, Len(rest))
    IN  IF open = 0 THEN None
        ELSE IF sp = 0 THEN None
        ELSE IF StrFind(after, ")") = 0 THEN None
        ELSE Some(SubSeq(rest, 1, sp - 1))

----------------------------------------------------------------------------
(* Program constants.                                                      *)

PAJ_URL == "https://www.paj.gr.jp"
XlsMarker == "[xls]"
HrefPrefix == "/english/statis/data/"
IconListClass == "icon_list"
ChunkSize == 512

\* the HTTP statuses the server answers with
Statuses == {200, 304, 404, 500}
\* the byte values of a response body
Bytes == {0, 1}

----------------------------------------------------------------------------
(* The index page.  A page is the sequence of its <ul> elements, a <ul>    *)
(* its class attribute and its <li> children; a <li> has an optional <a>   *)
(* (optional text, optional href) and an optional <span> text.             *)

Li(text, href, span) == [a |-> Some([text |-> text, href |-> href]), span |-> span]
Ul(class, lis) == <<[class |-> class, lis |-> lis]>>

SpanMay == Some("(2020/05/01 updated)")
SpanJune == Some("(2020/06/01 updated)")

LiReport == Li(Some("[xls] Some Report"), Some("/english/statis/data/03/report_2020.xlsx"), SpanMay)
LiOtherExt == Li(Some("[xls] Some Report (old format)"), Some("/english/statis/data/03/report_2020.xls"), SpanMay)
LiOtherGroup == Li(Some("[xls] Other Report"), Some("/english/statis/data/04/report_2020.xlsx"), SpanMay)
LiLaterDate == Li(Some("[xls] Some Report"), Some("/english/statis/data/03/report_2020.xlsx"), SpanJune)
LiTwoDots == Li(Some("Oil supply [xls]"), Some("/english/statis/data/05/oil.v2.xls"), SpanMay)
LiPdf == Li(Some("[pdf] Some Report"), Some("/english/statis/data/03/report_2020.pdf"), SpanMay)
LiPdfNoDate == Li(Some("[pdf] Notes"), Some("/english/statis/data/03/notes.pdf"), Some("updated"))
LiXlsNoDate == Li(Some("[xls] Some Report"), Some("/english/statis/data/03/report_2020.xlsx"), Some("2020/05/01 updated"))
LiXlsNoSpan == Li(Some("[xls] Some Report"), Some("/english/statis/data/03/report_2020.xlsx"), None)
LiNoAnchor == [a |-> None, span |-> SpanMay]
LiNoText == Li(None, Some("/english/statis/data/03/report_2020.xlsx"), SpanMay)
LiNoHref == Li(Some("[xls] Some Report"), None, SpanMay)
LiHrefNoPrefix == Li(Some("[xls] Some Report"), Some("03/report_2020.xlsx"), SpanMay)
LiHrefElsewhere == Li(Some("[xls] Some Report"), Some("/english/news/03/report_2020.xlsx"), SpanMay)
LiHrefShort == Li(Some("[xls] Some Report"), Some("/english/statis/data/report_2020.xlsx"), SpanMay)
LiHrefLong == Li(Some("[xls] Some Report"), Some("/english/statis/data/03/2020/report_2020.xlsx"), SpanMay)

ItemPool ==
    {LiReport, LiOtherExt, LiOtherGroup, LiLaterDate, LiTwoDots, LiPdf, LiPdfNoDate,
     LiXlsNoDate, LiXlsNoSpan, LiNoAnchor, LiNoText, LiNoHref, LiHrefNoPrefix,
     LiHrefElsewhere, LiHrefShort, LiHrefLong}

ItemSeqs == UNION {[1..n -> ItemPool] : n \in 0..MaxItems}

\* the index pages the lister is run on: no <ul> at all, a <ul> of another
\* class, and the icon list with every sequence of items
Pages ==
    {<<>>, Ul("link_list", <<LiReport>>)} \cup {Ul(IconListClass, lis) : lis \in ItemSeqs}

\* the index pages of the runs that go on to download
DownloadPages ==
    {<<>>, Ul("link_list", <<LiReport>>), Ul(IconListClass, <<>>)}
    \cup {Ul(IconListClass, <<LiReport, li>>) :
            li \in {LiOtherExt, LiOtherGroup, LiPdf, LiPdfNoDate, LiXlsNoDate, LiXlsNoSpan,
                    LiNoAnchor, LiNoText, LiNoHref, LiHrefShort, LiHrefLong}}
    \cup {Ul(IconListClass, <<LiPdf, LiReport>>), Ul(IconListClass, <<LiHrefNoPrefix>>),
          Ul(IconListClass, <<LiTwoDots>>),
          Ul(IconListClass, <<LiReport, LiOtherExt, LiOtherGroup>>)}

----------------------------------------------------------------------------
(* prepare_resources                                                       *)

\* start_page.findall('.//{*}ul[@class="icon_list"]/li')
RECURSIVE Findall(_)
Findall(p) ==
    IF p = <<>> THEN <<>>
    ELSE (IF Head(p).class = IconListClass THEN Head(p).lis ELSE <<>>) \o Findall(Tail(p))

\* mutant: any bracketed marker makes a candidate
IsCandidateAnyMarker(text) == StrContains(text, "[")

\* '[xls]' in file_link.text
IsCandidate(text) == StrContains(text, XlsMarker)

\* re.search(...).group(1).replace('/', '-'), given the match's group(1)
UpdateDate(group1) == StrReplace(group1, "/", "-")

\* file_link.get('href').replace("/english/statis/data/", "").split('/')
HrefParts(href) == StrSplit(StrReplace(href, HrefPrefix, ""), "/")

\* id=update_date + '_' + filename.split('.')[0]
ResourceId(update_date, filename) == update_date \o "_" \o StrSplit(filename, ".")[1]

\* name=update_date + '_' + filename
ResourceName(update_date, filename) == update_date \o "_" \o filename

\* PAJResource(id=..., dir=target_dir / index, url=PAJ_URL + href, name=...);
\* dir is the path below target_dir
PAJResource(update_date, index, filename, href) ==
    [id   |-> ResourceId(update_date, filename),
     dir  |-> index,
     url  |-> PAJ_URL \o href,
     name |-> ResourceName(update_date, filename)]

Raise(e) == [kind |-> "raise", exc |-> e]
Skip == [kind |-> "skip"]
Yield(r) == [kind |-> "yield", res |-> r]

\* mutant: an item whose date cannot be read is skipped, not fatal
ListItemSkipsUndated(li) ==
    IF li.a = None THEN Raise("AttributeError")
    ELSE LET file_link == li.a[1] IN
    IF file_link.text = None THEN Raise("TypeError")
    ELSE IF ~IsCandidate(file_link.text[1]) THEN Skip
    ELSE IF li.span = None THEN Skip
    ELSE LET m == ReSearchDate(li.span[1]) IN
    IF m = None THEN Skip
    ELSE IF file_link.href = None THEN Raise("AttributeError")
    ELSE LET parts == HrefParts(file_link.href[1]) IN
    IF Len(parts) # 2 THEN Raise("ValueError")
    ELSE Yield(PAJResource(UpdateDate(m[1]), parts[1], parts[2], file_link.href[1]))

\* one pass of the for loop's body over list_item: what it ends in
ListItem(li) ==
    IF li.a = None THEN Raise("AttributeError")            \* None.text
    ELSE LET file_link == li.a[1] IN
    IF file_link.text = None THEN Raise("TypeError")       \* '[xls]' in None
    ELSE IF ~IsCandidate(file_link.text[1]) THEN Skip
    ELSE IF li.span = None THEN Raise("AttributeError")    \* None.text
    ELSE LET m == ReSearchDate(li.span[1]) IN
    IF m = None THEN Raise("AttributeError")               \* None.group
    ELSE IF file_link.href = None THEN Raise("AttributeError")  \* None.replace
    ELSE LET parts == HrefParts(file_link.href[1]) IN
    IF Len(parts) # 2 THEN Raise("ValueError")             \* tuple unpacking
    ELSE Yield(PAJResource(UpdateDate(m[1]), parts[1], parts[2], file_link.href[1]))

Items == Findall(page)

----------------------------------------------------------------------------
(* The filesystem below target_dir, and what the callbacks do to it.       *)

\* mutant: create_context creates nothing
MkdirNothing(ds, d) == ds

\* Path.mkdir(exist_ok=True, parents=True)
Mkdir(ds, d) == ds \cup {d}

\* mutant: the whole target directory is removed
RmtreeTargetDir(fs, d) == <<>>

\* shutil.rmtree(d), on the files
Rmtree(fs, d) == [q \in {q \in DOMAIN fs : q[1] # d} |-> fs[q]]

\* mutant: open("ab"), which keeps what the file holds
OpenAb(fs, p) == [q \in DOMAIN fs \cup {p} |-> IF q \in DOMAIN fs THEN fs[q] ELSE <<>>]

\* open("wb"): the file is created, or truncated
OpenWb(fs, p) == [q \in DOMAIN fs \cup {p} |-> IF q = p THEN <<>> ELSE fs[q]]

\* if chunk: _file.write(chunk)
WriteChunk(fs, p, chunk) == IF chunk # <<>> THEN [fs EXCEPT ![p] = @ \o chunk] ELSE fs

\* mutant: only a server error raises
RaiseForServerError(status) == 500 <= status /\ status < 600

\* resp.raise_for_status(): HTTPError for a 4xx or 5xx status
RaiseForStatus(status) == 400 <= status /\ status < 600

Min2(a, b) == IF a <= b THEN a ELSE b

\* what iter_content(chunk_size=512) can deliver next: at most chunk_size
\* bytes, possibly none
ChunkValues == UNION {[1..n -> Bytes] : n \in 0..Min2(ChunkSize, MaxBody)}

\* lastOp: the callback (op) and its resource (res); how it ended (outcome,
\* "running" while process_resource is in its loop); for process_resource the
\* status of the response, the body received so far, whether it came in more
\* than one non-empty chunk, whether an empty chunk came, and whether the file
\* held bytes before the call; for delete the number of files it removed
NoOp == [op |-> "none", res |-> None, status |-> 0, outcome |-> "", received |-> <<>>,
         split |-> FALSE, sawEmpty |-> FALSE, hadBytes |-> FALSE, removed |-> 0]

\* mutant: the resources are processed as the generator yields them
HandedWhileListing == pc \in {"listing", "processing"}

\* main has reached process_resources(resources=resources, ...)
Handed == pc = "processing"

\* process_resource is synchronous: no other callback runs during it
Idle == lastOp.outcome # "running"

Listed == {resources[i] : i \in 1..Len(resources)}

PathOf(r) == <<r.dir, r.name>>

----------------------------------------------------------------------------
(* Actions.                                                                *)

LetIn(p) ==
    /\ page = p
    /\ pc = "listing"
    /\ idx = 1
    /\ resources = <<>>
    /\ exc = ""
    /\ dirs = {}
    /\ files = <<>>
    /\ lastOp = NoOp

Init == \E p \in DownloadPages : LetIn(p)
InitLister == \E p \in Pages : LetIn(p)

\* one iteration of prepare_resources' loop, driven by main's comprehension
NextItem ==
    /\ pc = "listing"
    /\ idx <= Len(Items)
    /\ LET out == ListItem(Items[idx]) IN
       CASE out.kind = "skip"  -> /\ idx' = idx + 1
                                  /\ UNCHANGED <<pc, resources, exc>>
         [] out.kind = "yield" -> /\ idx' = idx + 1
                                  /\ resources' = Append(resources, out.res)
                                  /\ UNCHANGED <<pc, exc>>
         [] out.kind = "raise" -> /\ pc' = "crashed"
                                  /\ exc' = out.exc
                                  /\ UNCHANGED <<idx, resources>>
    /\ UNCHANGED <<page, dirs, files, lastOp>>

\* the loop ends: session.close(), the comprehension returns, load_events,
\* and process_resources is called with the list
FinishListing ==
    /\ pc = "listing"
    /\ idx > Len(Items)
    /\ pc' = "processing"
    /\ UNCHANGED <<page, idx, resources, exc, dirs, files, lastOp>>

\* the toolbox calls resource.create_context()
CreateContext(r) ==
    /\ Handed /\ Idle
    /\ dirs' = Mkdir(dirs, r.dir)
    /\ lastOp' = [NoOp EXCEPT !.op = "create_context", !.res = Some(r), !.outcome = "ok"]
    /\ UNCHANGED <<page, pc, idx, resources, exc, files>>

\* the toolbox calls resource.delete()
Delete(r) ==
    /\ Handed /\ Idle
    /\ IF r.dir \in dirs
       THEN /\ dirs' = dirs \ {r.dir}
            /\ files' = Rmtree(files, r.dir)
            /\ lastOp' = [NoOp EXCEPT !.op = "delete", !.res = Some(r), !.outcome = "ok",
                                      !.removed = Cardinality(DOMAIN files \ DOMAIN files')]
       ELSE /\ lastOp' = [NoOp EXCEPT !.op = "delete", !.res = Some(r),
                                      !.outcome = "FileNotFoundError"]
            /\ UNCHANGED <<dirs, files>>
    /\ UNCHANGED <<page, pc, idx, resources, exc>>

\* the toolbox calls process_resource(resource): requests.get, then
\* raise_for_status, then open("wb"), up to the loop over the chunks
ProcessResource(r) ==
    /\ Handed /\ Idle
    /\ LET call == [NoOp EXCEPT !.op = "process_resource", !.res = Some(r),
                                !.hadBytes = (PathOf(r) \in DOMAIN files
                                              /\ files[PathOf(r)] # <<>>)]
       IN  \/ /\ lastOp' = [call EXCEPT !.outcome = "ConnectionError"]
              /\ UNCHANGED files
           \/ \E status \in Statuses :
                IF RaiseForStatus(status)
                THEN /\ lastOp' = [call EXCEPT !.status = status, !.outcome = "HTTPError"]
                     /\ UNCHANGED files
                ELSE IF r.dir \notin dirs
                THEN /\ lastOp' = [call EXCEPT !.status = status,
                                               !.outcome = "FileNotFoundError"]
                     /\ UNCHANGED files
                ELSE /\ files' = OpenWb(files, PathOf(r))
                     /\ lastOp' = [call EXCEPT !.status = status, !.outcome = "running"]
    /\ UNCHANGED <<page, pc, idx, resources, exc, dirs>>

\* one pass of process_resource's loop: iter_content delivers a chunk
NextChunk ==
    /\ lastOp.outcome = "running"
    /\ \E chunk \in ChunkValues :
        /\ Len(lastOp.received) + Len(chunk) <= MaxBody
        /\ files' = WriteChunk(files, PathOf(lastOp.res[1]), chunk)
        /\ lastOp' = [lastOp EXCEPT !.received = @ \o chunk,
                                    !.split = @ \/ (chunk # <<>> /\ lastOp.received # <<>>),
                                    !.sawEmpty = @ \/ chunk = <<>>]
    /\ UNCHANGED <<page, pc, idx, resources, exc, dirs>>

\* the body is complete: the loop ends, the file is closed, the call returns
EndOfBody ==
    /\ lastOp.outcome = "running"
    /\ lastOp' = [lastOp EXCEPT !.outcome = "ok"]
    /\ UNCHANGED <<page, pc, idx, resources, exc, dirs, files>>

\* the connection breaks in the middle of the body: iter_content raises
BrokenBody ==
    /\ lastOp.outcome = "running"
    /\ lastOp' = [lastOp EXCEPT !.outcome = "ChunkedEncodingError"]
    /\ UNCHANGED <<page, pc, idx, resources, exc, dirs, files>>

Lister == NextItem \/ FinishListing

Next ==
    \/ NextItem
    \/ FinishListing
    \/ \E r \in Listed : CreateContext(r)
    \/ \E r \in Listed : ProcessResource(r)
    \/ \E r \in Listed : Delete(r)
    \/ NextChunk
    \/ EndOfBody
    \/ BrokenBody

Spec == Init /\ [][Next]_vars
SpecLister == InitLister /\ [][Lister]_vars

----------------------------------------------------------------------------
(* The claims.                                                             *)

\* the list items the loop has been through without raising
Consumed == SubSeq(Items, 1, idx - 1)

\* the item has an anchor whose text holds the [xls] marker
HasXlsText(li) ==
    /\ li.a # None
    /\ li.a[1].text # None
    /\ StrContains(li.a[1].text[1], "[xls]")

HasPlainText(li) ==
    /\ li.a # None
    /\ li.a[1].text # None
    /\ ~StrContains(li.a[1].text[1], "[xls]")

Max(S) == CHOOSE x \in S : \A y \in S : x >= y

\* href is /english/statis/data/<groupIndex>/<fileName>.<ext>
WellFormedHref(h) ==
    /\ Len(h) > Len("/english/statis/data/")
    /\ SubSeq(h, 1, Len("/english/statis/data/")) = "/english/statis/data/"
    /\ LET parts == StrSplit(SubSeq(h, Len("/english/statis/data/") + 1, Len(h)), "/")
       IN  /\ Len(parts) = 2
           /\ parts[1] # ""
           /\ StrContains(parts[2], ".")

\* an [xls] item with a matching date and a well-formed href
WellFormedXls(li) ==
    /\ HasXlsText(li)
    /\ li.span # None
    /\ ReSearchDate(li.span[1]) # None
    /\ li.a[1].href # None
    /\ WellFormedHref(li.a[1].href[1])

\* a file name without its extension: up to its last "."
WithoutExtension(f) == SubSeq(f, 1, Max({i \in 1..Len(f) : SubSeq(f, i, i) = "."}) - 1)

\* the descriptor the specification gives a well-formed [xls] item
Described(li) ==
    LET D     == StrReplace(ReSearchDate(li.span[1])[1], "/", "-")
        href  == li.a[1].href[1]
        parts == StrSplit(SubSeq(href, Len("/english/statis/data/") + 1, Len(href)), "/")
    IN  [id   |-> D \o "_" \o WithoutExtension(parts[2]),
         dir  |-> parts[1],
         url  |-> "https://www.paj.gr.jp" \o href,
         name |-> D \o "_" \o parts[2]]

\* the hrefs of the page's list items are pairwise distinct
DistinctHrefs ==
    \A i, j \in 1..Len(Items) :
        (i # j /\ Items[i].a # None /\ Items[j].a # None) => Items[i].a[1].href # Items[j].a[1].href

\* C1: the descriptors yielded in one run have pairwise distinct ids, also
\* for items of the same date whose files share a base name in different
\* group directories or differ only in the extension.
C1_UniqueIds ==
    DistinctHrefs =>
        \A i, j \in 1..Len(resources) : i # j => resources[i].id # resources[j].id

\* C2: every [xls] item with a date D and a well-formed href yields the
\* descriptor with id D_<fileName without extension>, targetDirectory
\* <groupIndex>, sourceUrl base + href and fileName D_<fileName>.<ext>, also
\* when the file name holds more than one ".".
C2_DescriptorOfItem ==
    \A k \in 1..Len(Consumed) :
        WellFormedXls(Consumed[k]) => Described(Consumed[k]) \in Listed

\* a step that is a call of process_resource (up to the loop over the chunks)
ProcessStep == lastOp.outcome # "running" /\ lastOp'.op = "process_resource"

C4_FileIsBody ==
    (lastOp.op = "process_resource" /\ lastOp.outcome = "ok" /\ lastOp.status = 200)
        => /\ PathOf(lastOp.res[1]) \in DOMAIN files
           /\ files[PathOf(lastOp.res[1])] = lastOp.received

\* a body that came in two non-empty chunks and an empty one replaced a
\* longer file
C4_Witness ==
    /\ lastOp.op = "process_resource"
    /\ lastOp.outcome = "ok"
    /\ lastOp.status = 200
    /\ lastOp.split
    /\ lastOp.sawEmpty
    /\ lastOp.hadBytes
    /\ Len(lastOp.received) >= 2

\* C5 as amended: create_context creates targetDirectory when it is missing;
\* process_resource never creates a directory: it writes the file only if the
\* directory exists already, and with the directory missing a response that
\* passes raise_for_status ends in FileNotFoundError with nothing created.
C5_DirectoryFromCreateContext ==
    [][/\ lastOp'.op = "create_context" => lastOp'.res[1].dir \in dirs'
       /\ ProcessStep =>
            /\ dirs' = dirs
            /\ (lastOp'.outcome = "running") =>
                 (lastOp'.res[1].dir \in dirs /\ PathOf(lastOp'.res[1]) \in DOMAIN files')
            /\ (lastOp'.status \in {200, 304} /\ lastOp'.res[1].dir \notin dirs) =>
                 (lastOp'.outcome = "FileNotFoundError" /\ files' = files)]_vars

\* C5 as stated: process_resource on a 200 response creates the directory if
\* it is missing and leaves the file in it.
C5_Original ==
    [][(ProcessStep /\ lastOp'.status = 200)
         => (lastOp'.res[1].dir \in dirs' /\ PathOf(lastOp'.res[1]) \in DOMAIN files')]_vars

\* a download completed, into a directory create_context made, where no
\* bytes were before
C5_Witness ==
    /\ lastOp.op = "process_resource"
    /\ lastOp.outcome = "ok"
    /\ ~lastOp.hadBytes
    /\ lastOp.res[1].dir \in dirs
    /\ PathOf(lastOp.res[1]) \in DOMAIN files

\* C6: no callback runs, and nothing is written, before prepare_resources is
\* exhausted and main holds the whole list.
C6_ListingBeforeDownload ==
    (lastOp.op # "none" \/ dirs # {} \/ files # <<>>)
        => (pc = "processing" /\ idx = Len(Items) + 1)

\* a download of the second descriptor of a listing
C6_Witness ==
    /\ lastOp.op = "process_resource"
    /\ Len(resources) >= 2
    /\ lastOp.res[1] = resources[2]

C8_OnlyXlsItems == Len(resources) = Len(SelectSeq(Consumed, HasXlsText))

\* a finished listing of a page with an item without the marker and one with
C8_Witness ==
    /\ pc = "processing"
    /\ Len(resources) >= 1
    /\ \E k \in 1..Len(Items) : HasPlainText(Items[k])

\* the date pattern does not match the item's span text
NoDate(li) == li.span = None \/ ReSearchDate(li.span[1]) = None

\* the loop never goes past item k, the run never reaches the toolbox and
\* nothing is downloaded
StopsAt(k) ==
    /\ idx <= k
    /\ pc \in {"listing", "crashed"}
    /\ pc = "crashed" => exc \in {"AttributeError", "TypeError", "ValueError"}
    /\ lastOp.op = "none"
    /\ dirs = {}
    /\ files = <<>>

\* C9 as amended: a list item without anchor or without link text, or an
\* [xls] item whose span is missing or does not match the date pattern,
\* aborts the run; it is not skipped and nothing is downloaded.
C9_FailFast ==
    \A k \in 1..Len(Items) :
        (Items[k].a = None \/ Items[k].a[1].text = None
            \/ (HasXlsText(Items[k]) /\ NoDate(Items[k]))) => StopsAt(k)

\* C9 as stated: the same for any list item whose span does not match.
C9_Original ==
    \A k \in 1..Len(Items) :
        (Items[k].a = None \/ Items[k].a[1].text = None \/ NoDate(Items[k])) => StopsAt(k)

\* the run crashed on a malformed item after a well-formed one was listed
C9_Witness ==
    /\ pc = "crashed"
    /\ Len(resources) >= 1
    /\ idx <= Len(Items)
    /\ \/ Items[idx].a = None
       \/ Items[idx].a[1].text = None
       \/ (HasXlsText(Items[idx]) /\ NoDate(Items[idx]))

\* C10: a page without icon list or without list items, or with an [xls]
\* item whose href is not /english/statis/data/<groupIndex>/<fileName>.<ext>,
\* never gets its listing handed to the toolbox.
C10_StructureErrorsFatal ==
    (\/ Items = <<>>
     \/ \E k \in 1..Len(Items) :
            /\ HasXlsText(Items[k])
            /\ (Items[k].a[1].href = None \/ ~WellFormedHref(Items[k].a[1].href[1])))
        => pc # "processing"

====
